---- MODULE Spec2Model ----
(***************************************************************************)
(* regreddit: the purge run of src/src/app.rs (AppImpl::regreddit,         *)
(* AppImpl::delete_posts, AppImpl::delete_comments) against the Client     *)
(* trait of src/src/client.rs.                                             *)
(*                                                                         *)
(* The orchestrator authenticates, runs the two pipelines under join!,     *)
(* awaits every spawned JoinHandle and returns Ok.  Each pipeline loops:   *)
(* list a page with the cursor `after`, spawn one deletion task per child  *)
(* of its kind whose subreddit is not whitelisted, stop on a short page,   *)
(* otherwise take the cursor from the last child.  The Reddit server is    *)
(* the environment: it holds one listing per stream and answers a list     *)
(* call with an error, a non-Listing object, or a Listing holding the      *)
(* page that follows the cursor (or a prefix of it).                       *)
(*                                                                         *)
(* AppImpl::submit_self_post is modelled beside it, on variables of its    *)
(* own: it authenticates, builds the body from the one input source given  *)
(* and makes the submit call.                                              *)
(***************************************************************************)
EXTENDS Integers, Sequences, FiniteSets, Bags, TLC

\* LISTING_LIMIT is 50 in src/src/app.rs:14; the model scales the page size
\* down so that full pages, short pages and several pages can be enumerated.
LISTING_LIMIT == 2

\* The most elements the server's two listings hold together.
MaxItems == 3

\* Option<String>::None of the cursor `after`; names are positive.
None == 0

Streams == {"comments", "posts"}

\* The subreddits of the model; the whitelist is a subset of them.
Subs == {"keep", "other"}

\* Mutant of OwnKind: delete_comments matches Object::Link as well.
OwnKindLink(s) == "t3"

\* The Object variant a pipeline's `if let` accepts as a child to delete.
OwnKind(s) == IF s = "posts" THEN "t3" ELSE "t1"

\* The Object variant a pipeline's `if let ... = children.last()` accepts
\* as the source of the next cursor: Link in both pipelines.
CursorKind(s) == "t3"

\* The other variant that can stand in a stream's listing.
OtherKind(s) == IF s = "posts" THEN "t1" ELSE "t3"

\* The name (fullname id) of the i-th element of a stream's listing.
NameOf(s, i) == IF s = "posts" THEN i ELSE 10 + i

\* What an element of a listing can be: a child of the stream's kind in
\* either subreddit, or a child of the other kind (a nested Listing child
\* takes the same else branches as the other kind does in delete_posts).
\* app.rs reads `subreddit` of Comment as well as of Link.
Classes(s) ==
    {[kind |-> OwnKind(s), subreddit |-> sub] : sub \in Subs}
        \cup {[kind |-> OtherKind(s), subreddit |-> "other"]}

Shapes(s) == UNION {[1..n -> Classes(s)] : n \in 0..MaxItems}

MkListing(s, shape) ==
    [i \in 1..Len(shape) |->
        [kind |-> shape[i].kind, name |-> NameOf(s, i),
         subreddit |-> shape[i].subreddit]]

Min(a, b) == IF a < b THEN a ELSE b

VARIABLES
    whitelist,   \* HashSet of p.settings.whitelist
    listing,     \* server: the elements of each stream's listing
    auth,        \* what basic_auth returned: "none", "Ok" or "Err"
    pc,          \* position of regreddit
    result,      \* what regreddit returned: "none", "Ok" or "Err"
    ppc,         \* position of each pipeline
    pres,        \* what each pipeline returned: "none", "Ok" or "Err"
    after,       \* each pipeline's cursor
    handles,     \* each pipeline's Vec<JoinHandle>: the spawned tasks
    joined,      \* how many handles of each Vec regreddit has awaited
    calls,       \* history: the cursor of every list call of a stream
    pages,       \* history: the response to every list call of a stream
    log,         \* the records handed to log::info! / log::warn! (a bag)
    params,      \* SubmitSelfPostParams: the four optional input sources
    files,       \* file system: the paths fs::read_to_string can read
    spc,         \* position of submit_self_post
    sres,        \* what submit_self_post returned: "none", "Ok", ErrorKind
    submits      \* history: the body of every client.submit call

\* The variables of submit_self_post.
submitVars == <<params, files, spc, sres, submits>>

vars == <<whitelist, listing, auth, pc, result, ppc, pres, after, handles,
          joined, calls, pages, log, submitVars>>

\* SubmitSelfPostParams with no input source given.
NoParams ==
    [text |-> None, text_file |-> None, richtext_json |-> None,
     richtext_json_file |-> None]

\* submit_self_post is not called in a purge run.
SubmitIdle ==
    /\ params = NoParams
    /\ files = {}
    /\ spc = "idle"
    /\ sres = "none"
    /\ submits = <<>>

Init ==
    /\ whitelist \in SUBSET {"keep"}
    /\ \E sc \in Shapes("comments"), sp \in Shapes("posts") :
          /\ Len(sc) + Len(sp) <= MaxItems
          /\ listing = [s \in Streams |->
                          IF s = "posts" THEN MkListing(s, sp)
                                         ELSE MkListing(s, sc)]
    /\ auth = "none"
    /\ pc = "idle"
    /\ result = "none"
    /\ ppc = [s \in Streams |-> "idle"]
    /\ pres = [s \in Streams |-> "none"]
    /\ after = [s \in Streams |-> None]
    /\ handles = [s \in Streams |-> <<>>]
    /\ joined = [s \in Streams |-> 0]
    /\ calls = [s \in Streams |-> <<>>]
    /\ pages = [s \in Streams |-> <<>>]
    /\ log = EmptyBag
    /\ SubmitIdle

(***************************************************************************)
(* The server (environment of the Client trait).                           *)
(***************************************************************************)

\* The position in a listing of the element named nm, 0 when there is none.
IndexOf(lst, nm) ==
    IF \E i \in 1..Len(lst) : lst[i].name = nm
        THEN CHOOSE i \in 1..Len(lst) : lst[i].name = nm
        ELSE 0

\* The page a well-behaved server serves for the query `after=cur&limit=L`:
\* the (at most) LISTING_LIMIT elements that follow the element named cur.
TruePage(s, cur) ==
    LET lst == listing[s]
        start == IF cur = None THEN 0 ELSE IndexOf(lst, cur)
    IN  SubSeq(lst, start + 1, Min(start + LISTING_LIMIT, Len(lst)))

\* The `after` field of a Listing: the name of its last child while the
\* listing goes on behind it, null otherwise.
ServerAfter(s, children) ==
    IF children # <<>>
          /\ IndexOf(listing[s], children[Len(children)].name) < Len(listing[s])
        THEN children[Len(children)].name
        ELSE None

\* get_posts / get_comments returned Err (transport, status or serde error).
ErrResponse == [type |-> "Err", children |-> <<>>, after |-> None]

\* The response decoded to an Object that is not a Listing.
OtherResponse == [type |-> "Other", children |-> <<>>, after |-> None]

\* The Listing responses to a list call with cursor cur: the true page, or
\* a shorter prefix of it (a short page that arrives early).
ListingResponses(s, cur) ==
    LET page == TruePage(s, cur)
    IN  {[type |-> "Listing",
          children |-> SubSeq(page, 1, k),
          after |-> ServerAfter(s, SubSeq(page, 1, k))] : k \in 0..Len(page)}

(***************************************************************************)
(* The loop body of delete_posts / delete_comments.                        *)
(***************************************************************************)

\* Mutant of Exempt: the whitelist is never consulted.
ExemptNever(wl, subreddit) == FALSE

\* whitelist.contains(subreddit)
Exempt(wl, subreddit) == subreddit \in wl

\* tokio::spawn(async move { client.delete_link(id: &name) ... }); ncalls
\* counts the delete_link calls the task has made.
Spawn(name) == [id |-> name, st |-> "pending", ncalls |-> 0]

\* Mutant of ForChildren: `break` for `continue` on an unexpected object.
RECURSIVE ForChildrenBreak(_, _, _, _)
ForChildrenBreak(s, children, wl, hs) ==
    IF children = <<>> THEN hs
    ELSE LET child == Head(children)
         IN  IF child.kind # OwnKind(s) THEN hs
             ELSE ForChildrenBreak(s, Tail(children), wl,
                    IF child.subreddit \in wl THEN hs
                    ELSE Append(hs, Spawn(child.name)))

\* Mutant of ForChildren: a child whose id already has a task is skipped.
RECURSIVE ForChildrenDedup(_, _, _, _)
ForChildrenDedup(s, children, wl, hs) ==
    IF children = <<>> THEN hs
    ELSE LET child == Head(children)
         IN  ForChildrenDedup(s, Tail(children), wl,
                IF /\ child.kind = OwnKind(s)
                   /\ child.subreddit \notin wl
                   /\ \A h \in 1..Len(hs) : hs[h].id # child.name
                    THEN Append(hs, Spawn(child.name))
                    ELSE hs)

\* for child in &children { ... }: the handles Vec after the loop.
RECURSIVE ForChildren(_, _, _, _)
ForChildren(s, children, wl, hs) ==
    IF children = <<>> THEN hs
    ELSE LET child == Head(children)
         IN  ForChildren(s, Tail(children), wl,
                IF child.kind = OwnKind(s)
                    THEN IF Exempt(wl, child.subreddit)
                            THEN hs
                            ELSE Append(hs, Spawn(child.name))
                    ELSE hs)

\* log::info!("Post is in whitelisted subreddit. Skipping...") and its
\* Comment twin: the record names the stream's kind and no id.
WhitelistedRecord(s) ==
    [level |-> "info", event |-> "whitelisted", stream |-> s, id |-> None]

\* log::info!("Deleted post {}.", name) and its comment twin.
DeletedRecord(s, name) ==
    [level |-> "info", event |-> "deleted", stream |-> s, id |-> name]

\* log::warn!("Failed to delete {}: {}.", name, err): the same text in
\* both pipelines.
FailedRecord(name) ==
    [level |-> "warn", event |-> "failed", stream |-> "any", id |-> name]

\* One more record handed to the logger.
Emit(lg, rec) == lg (+) SetToBag({rec})

\* for child in &children { ... }: the log after the loop.
RECURSIVE ForChildrenLog(_, _, _, _)
ForChildrenLog(s, children, wl, lg) ==
    IF children = <<>> THEN lg
    ELSE LET child == Head(children)
         IN  ForChildrenLog(s, Tail(children), wl,
                IF child.kind = OwnKind(s) /\ Exempt(wl, child.subreddit)
                    THEN Emit(lg, WhitelistedRecord(s))
                    ELSE lg)

\* Mutant of ShortPage: only the children that are not whitelisted count.
ShortPageDeletable(children) ==
    Cardinality({j \in 1..Len(children) :
                    children[j].subreddit \notin whitelist}) < LISTING_LIMIT

\* Mutant of ShortPage: `<=` for `<`, a full page ends the stream too.
ShortPageLe(children) == Len(children) <= LISTING_LIMIT

\* Mutant of ShortPage: only an empty page ends the stream.
ShortPageEmpty(children) == Len(children) = 0

\* children.len() < LISTING_LIMIT as usize
ShortPage(children) == Len(children) < LISTING_LIMIT

\* Mutant of NextCursor: a whitelisted last child supplies no cursor.
NextCursorNotExempt(s, children) ==
    IF /\ children # <<>>
       /\ children[Len(children)].kind = CursorKind(s)
       /\ children[Len(children)].subreddit \notin whitelist
        THEN children[Len(children)].name
        ELSE None

\* Mutant of NextCursor: children.first() for children.last().
NextCursorFirst(s, children) ==
    IF children # <<>> /\ children[1].kind = CursorKind(s)
        THEN children[1].name
        ELSE None

\* if let Some(Object::Link { name, .. }) = children.last(): the new cursor,
\* None when the pattern does not match (the loop breaks).
NextCursor(s, children) ==
    IF children # <<>> /\ children[Len(children)].kind = CursorKind(s)
        THEN children[Len(children)].name
        ELSE None

(***************************************************************************)
(* regreddit.                                                              *)
(***************************************************************************)

\* Mutant of AuthAborts: the `?` is missing, the error is ignored.
AuthNeverAborts(res) == FALSE

\* `.await?` on basic_auth: an Err returns from regreddit at once.
AuthAborts(res) == res = "Err"

\* Mutant of JoinOutcome: a pipeline's Err is propagated with `?`.
JoinPropagates(pr) ==
    IF \E s \in Streams : pr[s] = "Err" THEN "Err" ELSE "Ok"

\* let (_, _) = join!(...): both pipeline results are dropped.
JoinOutcome(pr) == "Ok"

\* Mutant of Resolved: awaiting the handle of a failed task never returns.
ResolvedOk(h) == h.st = "ok"

\* Mutant of Resolved: the handle is dropped without being awaited.
ResolvedAlways(h) == TRUE

\* handle.await completes once the task has finished.
Resolved(h) == h.st # "pending"

\* Mutant of OnDeleteErr: the failure aborts the sibling tasks too.
OnDeleteErrAbortsAll(hs, i) ==
    [j \in 1..Len(hs) |->
        IF hs[j].st = "pending" THEN [hs[j] EXCEPT !.st = "failed"] ELSE hs[j]]

\* Mutant of OnDeleteErr: a failed delete_link is issued once more.
OnDeleteErrRetry(hs, i) ==
    IF hs[i].ncalls = 0
        THEN [hs EXCEPT ![i].ncalls = @ + 1]
        ELSE [hs EXCEPT ![i].st = "failed", ![i].ncalls = @ + 1]

\* The Err arm of the task's match: the one delete_link call has returned
\* Err, log::warn!, the task ends.
OnDeleteErr(hs, i) == [hs EXCEPT ![i].st = "failed", ![i].ncalls = @ + 1]

\* Mutant of OnDeleteErrLog: the Err arm is empty, the failure is silent.
OnDeleteErrSilent(lg, name) == lg

\* The Err arm of the task's match: what it hands to the logger.
OnDeleteErrLog(lg, name) == Emit(lg, FailedRecord(name))

\* Mutant of CanList: the next page waits for the stream's deletions.
CanListDrained(s) ==
    /\ ppc[s] = "loop"
    /\ \A h \in 1..Len(handles[s]) : handles[s][h].st # "pending"

\* Mutant of CanList: the next page is requested before the response to
\* the previous call has come.
CanListPrefetch(s) == ppc[s] \in {"loop", "await"} /\ Len(calls[s]) < 3

\* The pipeline is at the top of its loop: the previous iteration is over;
\* nothing else is waited for before the list call.
CanList(s) == ppc[s] = "loop"

\* Mutant of EndPipeline: one pipeline's end cancels the other one too.
EndPipelineBoth(p, s) == [t \in Streams |-> "ended"]

\* `break` / `return` of a pipeline: that pipeline's future completes.
EndPipeline(p, s) == [p EXCEPT ![s] = "ended"]

\* Mutant of SetCursor: both pipelines share one cursor.
SetCursorShared(a, s, c) == [t \in Streams |-> c]

\* after = Some(name.clone()): the pipeline's own local `after`.
SetCursor(a, s, c) == [a EXCEPT ![s] = c]

\* Mutant of JoinReady: select! for join!, the first pipeline to return
\* completes the join.
JoinReadyAny(pp) == \E s \in Streams : pp[s] = "ended"

\* join!(delete_comments, delete_posts) completes when both futures have.
JoinReady(pp) == \A s \in Streams : pp[s] = "ended"

\* regreddit is called; the basic_auth request is sent.
Start ==
    /\ pc = "idle"
    /\ pc' = "auth"
    /\ UNCHANGED submitVars
    /\ UNCHANGED <<log, whitelist, listing, auth, result, ppc, pres, after,
                   handles, joined, calls, pages>>

\* basic_auth returns; on Ok join! starts both pipelines.
AuthReturns ==
    /\ pc = "auth"
    /\ \E res \in {"Ok", "Err"} :
          /\ auth' = res
          /\ IF AuthAborts(res)
                THEN /\ pc' = "done"
                     /\ result' = "Err"
                     /\ ppc' = ppc
                ELSE /\ pc' = "running"
                     /\ result' = result
                     /\ ppc' = [s \in Streams |-> "loop"]
    /\ UNCHANGED submitVars
    /\ UNCHANGED <<log, whitelist, listing, pres, after, handles, joined, calls,
                   pages>>

\* Top of the loop: get_posts / get_comments is called with `after`.
ListPage(s) ==
    /\ pc = "running"
    /\ CanList(s)
    /\ calls' = [calls EXCEPT ![s] = Append(@, after[s])]
    /\ ppc' = [ppc EXCEPT ![s] = "await"]
    /\ UNCHANGED submitVars
    /\ UNCHANGED <<log, whitelist, listing, auth, pc, result, pres, after,
                   handles, joined, pages>>

\* The list call returns Err: `.await?` returns it from the pipeline.
ResponseErr(s) ==
    /\ ppc[s] = "await"
    /\ pages' = [pages EXCEPT ![s] = Append(@, ErrResponse)]
    /\ ppc' = EndPipeline(ppc, s)
    /\ pres' = [pres EXCEPT ![s] = "Err"]
    /\ UNCHANGED submitVars
    /\ UNCHANGED <<log, whitelist, listing, auth, pc, result, after, handles,
                   joined, calls>>

\* The response is no Listing: log::error!, break, Ok(()).
ResponseOther(s) ==
    /\ ppc[s] = "await"
    /\ pages' = [pages EXCEPT ![s] = Append(@, OtherResponse)]
    /\ ppc' = EndPipeline(ppc, s)
    /\ pres' = [pres EXCEPT ![s] = "Ok"]
    /\ UNCHANGED submitVars
    /\ UNCHANGED <<log, whitelist, listing, auth, pc, result, after, handles,
                   joined, calls>>

\* The body of the loop on a Listing r: the for loop, the short-page test
\* and the cursor advance, up to the next list call or the end of the
\* pipeline.
OnListing(s, r) ==
    /\ pages' = [pages EXCEPT ![s] = Append(@, r)]
    /\ handles' = [handles EXCEPT
                     ![s] = ForChildren(s, r.children, whitelist, @)]
    /\ log' = ForChildrenLog(s, r.children, whitelist, log)
    /\ IF ShortPage(r.children) \/ NextCursor(s, r.children) = None
          THEN /\ ppc' = EndPipeline(ppc, s)
               /\ pres' = [pres EXCEPT ![s] = "Ok"]
               /\ after' = after
          ELSE /\ ppc' = [ppc EXCEPT ![s] = "loop"]
               /\ pres' = pres
               /\ after' = SetCursor(after, s, NextCursor(s, r.children))
    /\ UNCHANGED submitVars
    /\ UNCHANGED <<whitelist, listing, auth, pc, result, joined, calls>>

\* The response is a Listing served by a consistent server.
ResponseListing(s) ==
    /\ ppc[s] = "await"
    /\ \E r \in ListingResponses(s, calls[s][Len(calls[s])]) :
          OnListing(s, r)

\* A spawned task's delete_link returns Ok: log::info!, the task ends.
DeleteOk(s, i) ==
    /\ i \in 1..Len(handles[s])
    /\ handles[s][i].st = "pending"
    /\ handles' = [handles EXCEPT ![s][i].st = "ok",
                                   ![s][i].ncalls = @ + 1]
    /\ log' = Emit(log, DeletedRecord(s, handles[s][i].id))
    /\ UNCHANGED submitVars
    /\ UNCHANGED <<whitelist, listing, auth, pc, result, ppc, pres, after,
                   joined, calls, pages>>

\* A spawned task's delete_link returns Err: log::warn!, the task ends.
DeleteErr(s, i) ==
    /\ i \in 1..Len(handles[s])
    /\ handles[s][i].st = "pending"
    /\ handles' = [handles EXCEPT ![s] = OnDeleteErr(@, i)]
    /\ log' = OnDeleteErrLog(log, handles[s][i].id)
    /\ UNCHANGED submitVars
    /\ UNCHANGED <<whitelist, listing, auth, pc, result, ppc, pres, after,
                   joined, calls, pages>>

\* join! completes when both pipelines have returned.
JoinPipelines ==
    /\ pc = "running"
    /\ JoinReady(ppc)
    /\ IF JoinOutcome(pres) = "Err"
          THEN pc' = "done" /\ result' = "Err"
          ELSE pc' = "draining" /\ result' = result
    /\ UNCHANGED submitVars
    /\ UNCHANGED <<log, whitelist, listing, auth, ppc, pres, after, handles,
                   joined, calls, pages>>

\* for handle in delete_comment_handles { handle.await }, then the same
\* for delete_post_handles: one iteration.
AwaitHandle(s) ==
    /\ pc = "draining"
    /\ s = "posts" => joined["comments"] = Len(handles["comments"])
    /\ joined[s] < Len(handles[s])
    /\ Resolved(handles[s][joined[s] + 1])
    /\ joined' = [joined EXCEPT ![s] = @ + 1]
    /\ UNCHANGED submitVars
    /\ UNCHANGED <<log, whitelist, listing, auth, pc, result, ppc, pres, after,
                   handles, calls, pages>>

\* Ok(RegredditResult {})
Return ==
    /\ pc = "draining"
    /\ \A s \in Streams : joined[s] = Len(handles[s])
    /\ pc' = "done"
    /\ result' = "Ok"
    /\ UNCHANGED submitVars
    /\ UNCHANGED <<log, whitelist, listing, auth, ppc, pres, after, handles,
                   joined, calls, pages>>

Next ==
    \/ Start
    \/ AuthReturns
    \/ \E s \in Streams : ListPage(s)
    \/ \E s \in Streams : ResponseErr(s)
    \/ \E s \in Streams : ResponseOther(s)
    \/ \E s \in Streams : ResponseListing(s)
    \/ \E s \in Streams : \E i \in 1..Len(handles[s]) : DeleteOk(s, i)
    \/ \E s \in Streams : \E i \in 1..Len(handles[s]) : DeleteErr(s, i)
    \/ JoinPipelines
    \/ \E s \in Streams : AwaitHandle(s)
    \/ Return

Spec == Init /\ [][Next]_vars

\* Scheduling: the runtime polls every future that can make progress
\* (block_on, join! and tokio::spawn) and every call of the Client returns
\* with one of its outcomes, so the run does not stop while a step of it can
\* be taken.  Nothing is assumed about which of the ready steps comes first.
Fairness == WF_vars(Next)

\* The purge run under fair scheduling.
FairSpec == Init /\ [][Next]_vars /\ Fairness

\* The most posts of the account of the scenario runs.
MaxPosts == 5

\* A run on an account of n posts (alternating between the two subreddits)
\* and no comment, with an empty whitelist.
InitScenario ==
    /\ whitelist = {}
    /\ \E n \in 0..MaxPosts :
          listing = [s \in Streams |->
                       IF s = "posts"
                           THEN MkListing(s, [i \in 1..n |->
                                   [kind |-> "t3",
                                    subreddit |-> IF i % 2 = 1 THEN "keep"
                                                               ELSE "other"]])
                           ELSE <<>>]
    /\ auth = "none"
    /\ pc = "idle"
    /\ result = "none"
    /\ ppc = [s \in Streams |-> "idle"]
    /\ pres = [s \in Streams |-> "none"]
    /\ after = [s \in Streams |-> None]
    /\ handles = [s \in Streams |-> <<>>]
    /\ joined = [s \in Streams |-> 0]
    /\ calls = [s \in Streams |-> <<>>]
    /\ pages = [s \in Streams |-> <<>>]
    /\ log = EmptyBag
    /\ SubmitIdle

SpecScenario == InitScenario /\ [][Next]_vars

\* The last list call of a stream that the inconsistent server may answer
\* with a stale page.
MaxStaleCall == 2

\* The pages an inconsistent server may serve for the cursor cur: the
\* listing has shifted under it, the page starts before the cursor's
\* element and serves again elements it has served already.
StalePages(s, cur) ==
    LET lst == listing[s]
    IN  {SubSeq(lst, k + 1, Min(k + LISTING_LIMIT, Len(lst))) :
            k \in 0..(IndexOf(lst, cur) - 1)}

StaleResponses(s, cur) ==
    {[type |-> "Listing", children |-> pg, after |-> ServerAfter(s, pg)] :
        pg \in StalePages(s, cur)}

\* The response is a Listing served by an inconsistent server; the
\* pipeline handles it as any Listing.
ResponseStale(s) ==
    /\ ppc[s] = "await"
    /\ Len(calls[s]) <= MaxStaleCall
    /\ calls[s][Len(calls[s])] # None
    /\ \E r \in StaleResponses(s, calls[s][Len(calls[s])]) : OnListing(s, r)

NextInconsistent ==
    \/ Next
    \/ \E s \in Streams : ResponseStale(s)

\* A run on an account of n posts (alternating between the two subreddits)
\* and no comment, with the subreddit "keep" whitelisted.
InitPosts ==
    /\ whitelist = {"keep"}
    /\ \E n \in 0..MaxItems :
          listing = [s \in Streams |->
                       IF s = "posts"
                           THEN MkListing(s, [i \in 1..n |->
                                   [kind |-> "t3",
                                    subreddit |-> IF i % 2 = 1 THEN "keep"
                                                               ELSE "other"]])
                           ELSE <<>>]
    /\ auth = "none"
    /\ pc = "idle"
    /\ result = "none"
    /\ ppc = [s \in Streams |-> "idle"]
    /\ pres = [s \in Streams |-> "none"]
    /\ after = [s \in Streams |-> None]
    /\ handles = [s \in Streams |-> <<>>]
    /\ joined = [s \in Streams |-> 0]
    /\ calls = [s \in Streams |-> <<>>]
    /\ pages = [s \in Streams |-> <<>>]
    /\ log = EmptyBag
    /\ SubmitIdle

\* The purge run against a server whose pagination may be inconsistent.
SpecInconsistent == InitPosts /\ [][NextInconsistent]_vars

(***************************************************************************)
(* submit_self_post.                                                       *)
(***************************************************************************)

\* The most distinct values an input source can take.
MaxArg == 2

\* The values of Some(..) of an input source: a text, or the path of a file.
Args == 1..MaxArg

\* The ErrorKind of src/src/error.rs.
ErrorKind == {"Authentication", "InvalidInput", "Network", "Reddit", "Io"}

\* The contents of the file at path f.
FileContents(f) == 20 + f

\* A match arm's outcome: the SelfPostBody built.
Body(kind, data) == [err |-> "none", kind |-> kind, data |-> data]

\* A match arm's outcome: the error returned.
Fail(kind) == [err |-> kind, kind |-> "none", data |-> None]

\* fs::read_to_string(f)? inside SelfPostBody::kind(..): the body, or the
\* io::Error turned into ErrorKind::Io by From<io::Error>.
ReadBody(kind, f, fs) ==
    IF f \in fs THEN Body(kind, FileContents(f)) ELSE Fail("Io")

\* Mutant of MatchBody: the first source given is taken and the others are
\* ignored.
MatchBodyFirst(pr, fs) ==
    IF pr.text # None THEN Body("Text", pr.text)
    ELSE IF pr.text_file # None THEN ReadBody("Text", pr.text_file, fs)
    ELSE IF pr.richtext_json # None
        THEN Body("RichtextJson", pr.richtext_json)
    ELSE IF pr.richtext_json_file # None
        THEN ReadBody("RichtextJson", pr.richtext_json_file, fs)
    ELSE Fail("InvalidInput")

\* match (p.text, p.text_file, p.richtext_json, p.richtext_json_file)
MatchBody(pr, fs) ==
    LET given == <<pr.text # None, pr.text_file # None,
                   pr.richtext_json # None, pr.richtext_json_file # None>>
    IN  CASE given = <<TRUE, FALSE, FALSE, FALSE>> ->
                Body("Text", pr.text)
          [] given = <<FALSE, TRUE, FALSE, FALSE>> ->
                ReadBody("Text", pr.text_file, fs)
          [] given = <<FALSE, FALSE, TRUE, FALSE>> ->
                Body("RichtextJson", pr.richtext_json)
          [] given = <<FALSE, FALSE, FALSE, TRUE>> ->
                ReadBody("RichtextJson", pr.richtext_json_file, fs)
          [] OTHER -> Fail("InvalidInput")

\* The variables of the purge run that submit_self_post leaves alone.
purgeVars == <<whitelist, listing, pc, result, ppc, pres, after, handles,
               joined, calls, pages, log>>

\* submit_self_post is called; the basic_auth request is sent.
SubmitStart ==
    /\ spc = "idle"
    /\ spc' = "auth"
    /\ UNCHANGED <<auth, params, files, sres, submits>>
    /\ UNCHANGED purgeVars

\* basic_auth returns: `?` returns its error; on Ok the match builds the
\* body or returns, and client.submit is called with the body.
SubmitAuthReturns ==
    /\ spc = "auth"
    /\ \E res \in {"Ok", "Err"} :
          /\ auth' = res
          /\ IF AuthAborts(res)
                THEN /\ spc' = "done"
                     /\ sres' = "Authentication"
                     /\ submits' = submits
                ELSE LET m == MatchBody(params, files)
                     IN  IF m.err # "none"
                            THEN /\ spc' = "done"
                                 /\ sres' = m.err
                                 /\ submits' = submits
                            ELSE /\ spc' = "submit"
                                 /\ sres' = sres
                                 /\ submits' = Append(submits,
                                        [kind |-> m.kind, data |-> m.data])
    /\ UNCHANGED <<params, files>>
    /\ UNCHANGED purgeVars

\* client.submit returns: `?` returns its error, else
\* Ok(SubmitSelfPostResult {}).
SubmitReturns ==
    /\ spc = "submit"
    /\ \E res \in {"Ok", "Network", "Reddit"} : sres' = res
    /\ spc' = "done"
    /\ UNCHANGED <<auth, params, files, submits>>
    /\ UNCHANGED purgeVars

NextSubmit ==
    \/ SubmitStart
    \/ SubmitAuthReturns
    \/ SubmitReturns

\* The state before submit_self_post is called: any combination of input
\* sources, any set of readable files; no purge run.
InitSubmit ==
    /\ params \in [text : {None} \cup Args,
                    text_file : {None} \cup Args,
                    richtext_json : {None} \cup Args,
                    richtext_json_file : {None} \cup Args]
    /\ files \in SUBSET Args
    /\ spc = "idle"
    /\ sres = "none"
    /\ submits = <<>>
    /\ auth = "none"
    /\ whitelist = {}
    /\ listing = [s \in Streams |-> <<>>]
    /\ pc = "idle"
    /\ result = "none"
    /\ ppc = [s \in Streams |-> "idle"]
    /\ pres = [s \in Streams |-> "none"]
    /\ after = [s \in Streams |-> None]
    /\ handles = [s \in Streams |-> <<>>]
    /\ joined = [s \in Streams |-> 0]
    /\ calls = [s \in Streams |-> <<>>]
    /\ pages = [s \in Streams |-> <<>>]
    /\ log = EmptyBag

SpecSubmit == InitSubmit /\ [][NextSubmit]_vars

TypeOK ==
    /\ pc \in {"idle", "auth", "running", "draining", "done"}
    /\ result \in {"none", "Ok", "Err"}
    /\ auth \in {"none", "Ok", "Err"}
    /\ \A s \in Streams :
          /\ ppc[s] \in {"idle", "loop", "await", "ended"}
          /\ pres[s] \in {"none", "Ok", "Err"}
          /\ joined[s] \in 0..Len(handles[s])
          /\ Len(pages[s]) <= Len(calls[s])
    /\ spc \in {"idle", "auth", "submit", "done"}
    /\ sres \in {"none", "Ok"} \cup ErrorKind
    /\ Len(submits) <= 1

(***************************************************************************)
(* Vocabulary of the properties.                                           *)
(***************************************************************************)

\* The run has returned after a successful authentication.
Done == pc = "done" /\ auth = "Ok"

\* The elements of the n-th page a stream received.
Children(s, n) == pages[s][n].children

\* The ids for which a stream spawned a deletion task.
DispatchedIds(s) == {handles[s][h].id : h \in 1..Len(handles[s])}

\* Every response so far was the Listing a well-behaved server serves.
Honest(s) ==
    \A n \in 1..Len(pages[s]) :
        /\ pages[s][n].type = "Listing"
        /\ Children(s, n) = TruePage(s, calls[s][n])

\* Every element of a stream's listing is of the stream's kind.
AllOwn(s) == \A i \in 1..Len(listing[s]) : listing[s][i].kind = OwnKind(s)

(***************************************************************************)
(* C1  Exemption correctness.  For every element of a fetched page that is *)
(* an item of the stream's kind, a deletion task for its id has been       *)
(* spawned if and only if its subreddit is not in the whitelist; no task   *)
(* of either stream carries the id of an item whose subreddit is in the    *)
(* whitelist.                                                              *)
(***************************************************************************)
C1_ExemptionCorrectness ==
    \A s \in Streams : \A n \in 1..Len(pages[s]) :
        \A j \in 1..Len(Children(s, n)) :
            LET it == Children(s, n)[j]
            IN  it.kind = OwnKind(s) =>
                  /\ (it.name \in DispatchedIds(s)) <=> (it.subreddit \notin whitelist)
                  /\ it.subreddit \in whitelist =>
                        \A t \in Streams : it.name \notin DispatchedIds(t)

\* A page held an exempt item and a non-exempt item of the stream's kind,
\* and the run has finished.
C1_Witness ==
    /\ Done
    /\ \E s \in Streams : \E n \in 1..Len(pages[s]) :
          \E j, k \in 1..Len(Children(s, n)) :
              /\ Children(s, n)[j].kind = OwnKind(s)
              /\ Children(s, n)[k].kind = OwnKind(s)
              /\ Children(s, n)[j].subreddit \in whitelist
              /\ Children(s, n)[k].subreddit \notin whitelist
              /\ Children(s, n)[k].name \in DispatchedIds(s)

(***************************************************************************)
(* C2  Draining completeness.  When regreddit has returned Ok, every       *)
(* handle pushed by either pipeline has been awaited and its task has      *)
(* resolved: Done is never reached with a pending deletion.                *)
(***************************************************************************)
C2_DrainingCompleteness ==
    Done =>
        \A s \in Streams :
            /\ joined[s] = Len(handles[s])
            /\ \A h \in 1..Len(handles[s]) : handles[s][h].st # "pending"

\* The run returned after both pipelines had spawned deletion tasks.
C2_Witness ==
    /\ Done
    /\ \A s \in Streams : Len(handles[s]) >= 1

(***************************************************************************)
(* C3  Isolation.  A failing delete call changes nothing but its own       *)
(* task: the sibling tasks, both pipelines' positions, cursors and list    *)
(* calls, and the orchestrator are untouched; and a finished run reports   *)
(* Ok with every task resolved to its own outcome, ok or failed.           *)
(***************************************************************************)
C3_FailureIsLocal ==
    \A s \in Streams : \A i \in 1..Len(handles[s]) :
        (handles[s][i].st = "pending" /\ handles'[s][i].st = "failed") =>
            /\ \A t \in Streams :
                  /\ Len(handles'[t]) = Len(handles[t])
                  /\ \A j \in 1..Len(handles[t]) :
                        <<t, j>> # <<s, i>> => handles'[t][j] = handles[t][j]
            /\ UNCHANGED <<pc, result, ppc, pres, after, calls, pages, joined>>

C3_Isolation ==
    /\ [][C3_FailureIsLocal]_vars
    /\ [](Done =>
            /\ result = "Ok"
            /\ \A s \in Streams : \A h \in 1..Len(handles[s]) :
                  handles[s][h].st \in {"ok", "failed"})

\* The run returned Ok with one deletion failed and another succeeded.
C3_Witness ==
    /\ Done
    /\ result = "Ok"
    /\ \E s, t \in Streams :
          \E i \in 1..Len(handles[s]), j \in 1..Len(handles[t]) :
              handles[s][i].st = "failed" /\ handles[t][j].st = "ok"

(***************************************************************************)
(* C4  Fatal short-circuit.  When basic_auth has failed, regreddit has     *)
(* returned Err, no pipeline was started, and no list call and no          *)
(* deletion task was ever made.                                            *)
(***************************************************************************)
C4_FatalShortCircuit ==
    auth = "Err" =>
        /\ pc = "done"
        /\ result = "Err"
        /\ \A s \in Streams :
              /\ ppc[s] = "idle"
              /\ calls[s] = <<>>
              /\ pages[s] = <<>>
              /\ handles[s] = <<>>

\* Authentication failed and the run returned.
C4_Witness == auth = "Err" /\ pc = "done"

(***************************************************************************)
(* C5  The run returns Err if and only if authentication failed: after a   *)
(* successful authentication it returns Ok whatever the list calls and     *)
(* the delete calls returned.                                              *)
(***************************************************************************)
C5_ErrIffAuthFailed ==
    /\ pc = "done" => (result = "Err" <=> auth = "Err")
    /\ Done => result = "Ok"
    /\ result # "none" => pc = "done"

\* The run returned Ok although a list call returned Err, another response
\* was no Listing, and a delete call failed.
C5_Witness ==
    /\ Done
    /\ result = "Ok"
    /\ \E s \in Streams : pres[s] = "Err"
    /\ \E s \in Streams : \E n \in 1..Len(pages[s]) : pages[s][n].type = "Other"
    /\ \E s \in Streams : \E h \in 1..Len(handles[s]) : handles[s][h].st = "failed"

(***************************************************************************)
(* Vocabulary of the pagination properties.                                *)
(***************************************************************************)

\* The elements of all pages a stream received, in order.
RECURSIVE Concat(_)
Concat(ps) == IF ps = <<>> THEN <<>> ELSE Head(ps).children \o Concat(Tail(ps))

\* The ids of the deletion tasks of a stream, in spawn order.
DispatchedSeq(s) == [h \in 1..Len(handles[s]) |-> handles[s][h].id]

\* The names of the elements of a sequence whose subreddit is not exempt.
RECURSIVE SurvivorNames(_)
SurvivorNames(items) ==
    IF items = <<>> THEN <<>>
    ELSE IF Head(items).subreddit \in whitelist
            THEN SurvivorNames(Tail(items))
            ELSE <<Head(items).name>> \o SurvivorNames(Tail(items))

\* The n-th response of a stream is a Listing of exactly LISTING_LIMIT
\* elements, all of the stream's kind.
FullOwnPage(s, n) ==
    /\ pages[s][n].type = "Listing"
    /\ Len(Children(s, n)) = LISTING_LIMIT
    /\ \A j \in 1..LISTING_LIMIT : Children(s, n)[j].kind = OwnKind(s)

\* The positions of a page's elements that decode as the stream's kind.
Decodable(s, n) ==
    {j \in 1..Len(Children(s, n)) : Children(s, n)[j].kind = OwnKind(s)}

Last(seq) == seq[Len(seq)]

Ceil(a, b) == (a + b - 1) \div b

(***************************************************************************)
(* C6  Posts pagination termination.  When the posts listing holds only    *)
(* posts and the server has served it as its true pages (full pages, then  *)
(* a short one), the ended posts pipeline has received every page in       *)
(* order, has run exactly the listing's elements through its loop once     *)
(* each and in order (the tasks spawned are the non-exempt posts in        *)
(* listing order), every page but the last was full, the last was short,   *)
(* and no list call followed it.                                           *)
(***************************************************************************)
C6_PostsPaginationTermination ==
    (ppc["posts"] = "ended" /\ Honest("posts") /\ AllOwn("posts")) =>
        /\ Concat(pages["posts"]) = listing["posts"]
        /\ DispatchedSeq("posts") = SurvivorNames(listing["posts"])
        /\ Len(calls["posts"]) = Len(pages["posts"])
        /\ \A n \in 1..Len(pages["posts"]) :
              IF n < Len(pages["posts"])
                  THEN Len(Children("posts", n)) = LISTING_LIMIT
                  ELSE Len(Children("posts", n)) < LISTING_LIMIT

\* The posts pipeline ended after a full page and a short page of posts.
C6_Witness ==
    /\ ppc["posts"] = "ended"
    /\ Honest("posts")
    /\ AllOwn("posts")
    /\ Len(pages["posts"]) >= 2
    /\ Len(listing["posts"]) > LISTING_LIMIT
    /\ Len(handles["posts"]) >= 1

(***************************************************************************)
(* C7  Comments pagination advance (as claimed).  After a page of exactly  *)
(* LISTING_LIMIT comments the comments pipeline advances its cursor to the *)
(* id of the page's last comment and lists again.                          *)
(***************************************************************************)
C7_CommentsAdvance ==
    \A n \in 1..Len(pages["comments"]) :
        FullOwnPage("comments", n) =>
            IF n < Len(calls["comments"])
                THEN calls["comments"][n + 1] = Last(Children("comments", n)).name
                ELSE /\ ppc["comments"] = "loop"
                     /\ after["comments"] = Last(Children("comments", n)).name

(***************************************************************************)
(* C8  List call count (as claimed).  For the posts stream, whose listing  *)
(* of `total` posts is served as Listings, the ended pipeline has issued   *)
(* exactly ceil(total / LISTING_LIMIT) list calls when the server served   *)
(* the true pages, and no more than that when a short page came early.     *)
(***************************************************************************)
C8_CallCountCeil ==
    LET s == "posts"
        total == Len(listing[s])
    IN  (ppc[s] = "ended" /\ AllOwn(s)
            /\ \A n \in 1..Len(pages[s]) : pages[s][n].type = "Listing") =>
            IF Honest(s)
                THEN Len(calls[s]) = Ceil(total, LISTING_LIMIT)
                ELSE Len(calls[s]) <= Ceil(total, LISTING_LIMIT)

(***************************************************************************)
(* C8  List call count (amended).  For a stream whose listing holds        *)
(* `total` items of its kind and is served as Listings, the ended pipeline *)
(* has issued at most floor(total / LISTING_LIMIT) + 1 list calls, and the *)
(* posts pipeline exactly that many when the server served the true pages  *)
(* (the final page is fetched even when it is empty).                      *)
(***************************************************************************)
C8_CallCountFloorPlusOne ==
    \A s \in Streams :
        LET total == Len(listing[s])
        IN  (ppc[s] = "ended" /\ AllOwn(s)
                /\ \A n \in 1..Len(pages[s]) : pages[s][n].type = "Listing") =>
                /\ Len(calls[s]) <= (total \div LISTING_LIMIT) + 1
                /\ (s = "posts" /\ Honest(s)) =>
                      Len(calls[s]) = (total \div LISTING_LIMIT) + 1

\* The posts pipeline ended after a full page and an empty final page.
C8_Witness ==
    /\ ppc["posts"] = "ended"
    /\ Honest("posts")
    /\ AllOwn("posts")
    /\ Len(listing["posts"]) = LISTING_LIMIT
    /\ Len(calls["posts"]) = 2
    /\ Children("posts", 2) = <<>>

(***************************************************************************)
(* C9  Cursor derivation (as claimed).  In each stream the first list call *)
(* carries no cursor, and the cursor of call n+1 is the id of the last     *)
(* element of page n that decodes as an item of the stream's kind.         *)
(***************************************************************************)
C9_CursorDerivation ==
    \A s \in Streams : \A n \in 1..Len(calls[s]) :
        IF n = 1
            THEN calls[s][n] = None
            ELSE /\ Decodable(s, n - 1) # {}
                 /\ \E j \in Decodable(s, n - 1) :
                       /\ \A k \in Decodable(s, n - 1) : k <= j
                       /\ calls[s][n] = Children(s, n - 1)[j].name

(***************************************************************************)
(* C10  A short page is terminal.  Once a stream has received a Listing of *)
(* fewer than LISTING_LIMIT elements, that response is its last and the    *)
(* pipeline has ended: no list call follows, whatever `after` the server   *)
(* put in the Listing and whatever the page's last element is.             *)
(***************************************************************************)
C10_ShortPageTerminal ==
    \A s \in Streams : \A n \in 1..Len(pages[s]) :
        (pages[s][n].type = "Listing" /\ Len(Children(s, n)) < LISTING_LIMIT) =>
            /\ n = Len(pages[s])
            /\ Len(calls[s]) = n
            /\ ppc[s] = "ended"

\* A stream ended on a short page whose Listing carried a next cursor and
\* whose last element is a Link, the kind a cursor is taken from.
C10_Witness ==
    \E s \in Streams :
        /\ ppc[s] = "ended"
        /\ pages[s] # <<>>
        /\ Last(pages[s]).type = "Listing"
        /\ Last(pages[s]).children # <<>>
        /\ Len(Last(pages[s]).children) < LISTING_LIMIT
        /\ Last(pages[s]).after # None
        /\ Last(Last(pages[s]).children).kind = CursorKind(s)

(***************************************************************************)
(* C11  Whole-run counts with no exemptions (specification SpecScenario).  *)
(* For an account of N posts and no comment, an empty whitelist and a      *)
(* server that serves the true pages, the finished run has made exactly    *)
(* floor(N / LISTING_LIMIT) + 1 list calls for posts and exactly 1 for     *)
(* comments, has spawned exactly one task per post id, each of which made  *)
(* one delete call, and has returned Ok whatever the deletes returned;     *)
(* with N = 0 nothing is spawned and the drain has nothing to await.       *)
(***************************************************************************)
C11_WholeRunCounts ==
    LET N == Len(listing["posts"])
    IN  /\ (Done /\ Honest("posts") /\ Honest("comments")) =>
              /\ Len(calls["posts"]) = (N \div LISTING_LIMIT) + 1
              /\ Len(calls["comments"]) = 1
              /\ DispatchedSeq("posts") = [i \in 1..N |-> NameOf("posts", i)]
              /\ \A h \in 1..N : handles["posts"][h].ncalls = 1
              /\ handles["comments"] = <<>>
              /\ result = "Ok"
        /\ (pc = "draining" /\ N = 0) =>
              /\ \A s \in Streams : handles[s] = <<>>
              /\ ENABLED Return

\* A finished run over two full pages and a last page, three list calls
\* for posts, in which every delete failed.
C11_Witness ==
    /\ Done
    /\ Honest("posts") /\ Honest("comments")
    /\ Len(listing["posts"]) >= 2 * LISTING_LIMIT
    /\ Len(calls["posts"]) = 3
    /\ Len(handles["posts"]) = Len(listing["posts"])
    /\ \A h \in 1..Len(handles["posts"]) : handles["posts"][h].st = "failed"
    /\ result = "Ok"

(***************************************************************************)
(* Vocabulary of the stream properties.                                    *)
(***************************************************************************)

OtherStream(s) == IF s = "posts" THEN "comments" ELSE "posts"

\* All a pipeline owns and all the history of its stream.
StreamState(s) == <<ppc[s], pres[s], after[s], calls[s], pages[s], handles[s]>>

\* The kind of item a stream is meant to delete: posts are Links (t3),
\* comments are Comments (t1).
ExpectedKind(s) == IF s = "posts" THEN "t3" ELSE "t1"

\* The last response a stream received is of the given type.
StoppedBy(s, type) == pages[s] # <<>> /\ Last(pages[s]).type = type

\* This step delivers a response of the given type to a stream.
Delivers(s, type) ==
    /\ Len(pages'[s]) = Len(pages[s]) + 1
    /\ Last(pages'[s]).type = type

\* Every handle of either Vec has been awaited and its task has finished.
AllDrained ==
    \A s \in Streams :
        /\ joined[s] = Len(handles[s])
        /\ \A h \in 1..Len(handles[s]) : handles[s][h].st \in {"ok", "failed"}

(***************************************************************************)
(* C12  All-exempt stream.  When every element of a stream's listing is    *)
(* in a whitelisted subreddit, the stream spawns no deletion task, so no   *)
(* delete call is made and none fails; it still makes its list calls       *)
(* (exactly one when the listing is shorter than a page and served as it   *)
(* is), and the run returns Ok.                                            *)
(***************************************************************************)
C12_AllExemptStream ==
    \A s \in Streams :
        (\A i \in 1..Len(listing[s]) : listing[s][i].subreddit \in whitelist) =>
            /\ handles[s] = <<>>
            /\ ppc[s] = "ended" => Len(calls[s]) >= 1
            /\ (ppc[s] = "ended" /\ Honest(s)
                    /\ Len(listing[s]) < LISTING_LIMIT) => Len(calls[s]) = 1
            /\ Done => result = "Ok"

\* A finished run in which the posts listing was not empty, all of it
\* whitelisted, served in one short page.
C12_Witness ==
    /\ Done
    /\ result = "Ok"
    /\ listing["posts"] # <<>>
    /\ \A i \in 1..Len(listing["posts"]) :
          /\ listing["posts"][i].kind = "t3"
          /\ listing["posts"][i].subreddit \in whitelist
    /\ Honest("posts")
    /\ Len(calls["posts"]) = 1
    /\ Concat(pages["posts"]) = listing["posts"]
    /\ handles["posts"] = <<>>

(***************************************************************************)
(* C13  Malformed page shape.  A response that is no Listing ends its      *)
(* stream's pipeline with Ok: it is the stream's last response, no list    *)
(* call and no task follow it, the step changes nothing of the other       *)
(* stream (which goes on to its own end), and the finished run has awaited *)
(* every task, those of the stopped stream included, and returned Ok.      *)
(***************************************************************************)
C13_OtherStopsOnlyItsStream ==
    \A s \in Streams :
        /\ Delivers(s, "Other") =>
              /\ handles'[s] = handles[s]
              /\ StreamState(OtherStream(s))' = StreamState(OtherStream(s))
              /\ UNCHANGED <<pc, result, joined>>
        /\ StoppedBy(s, "Other") =>
              /\ ppc'[s] = "ended" /\ pres'[s] = "Ok"
              /\ calls'[s] = calls[s] /\ pages'[s] = pages[s]
              /\ Len(handles'[s]) = Len(handles[s])

C13_MalformedPage ==
    /\ [][C13_OtherStopsOnlyItsStream]_vars
    /\ [](\A s \in Streams :
            StoppedBy(s, "Other") =>
                /\ ppc[s] = "ended" /\ pres[s] = "Ok"
                /\ Len(calls[s]) = Len(pages[s])
                /\ Done => (result = "Ok" /\ AllDrained))

\* A finished run in which a stream was stopped by a malformed second page
\* after it had spawned a task, and the other stream ran to a short page.
C13_Witness ==
    /\ Done
    /\ result = "Ok"
    /\ \E s \in Streams :
          /\ StoppedBy(s, "Other")
          /\ Len(pages[s]) >= 2
          /\ Len(handles[s]) >= 1
          /\ StoppedBy(OtherStream(s), "Listing")
          /\ Len(handles[OtherStream(s)]) >= 1

(***************************************************************************)
(* C14  Failed list call.  A list call that returns Err ends its stream's  *)
(* pipeline: it is the stream's last response, the step changes nothing of *)
(* the other stream, and the finished run has awaited every task spawned   *)
(* for the earlier pages and returned Ok, not the error.                   *)
(***************************************************************************)
C14_ErrStopsOnlyItsStream ==
    \A s \in Streams :
        /\ Delivers(s, "Err") =>
              /\ handles'[s] = handles[s]
              /\ StreamState(OtherStream(s))' = StreamState(OtherStream(s))
              /\ UNCHANGED <<pc, result, joined>>
        /\ StoppedBy(s, "Err") =>
              /\ ppc'[s] = "ended" /\ pres'[s] = "Err"
              /\ calls'[s] = calls[s] /\ pages'[s] = pages[s]
              /\ Len(handles'[s]) = Len(handles[s])

C14_FailedListCall ==
    /\ [][C14_ErrStopsOnlyItsStream]_vars
    /\ [](\A s \in Streams :
            StoppedBy(s, "Err") =>
                /\ ppc[s] = "ended" /\ pres[s] = "Err"
                /\ Len(calls[s]) = Len(pages[s])
                /\ pc = "done" => (result = "Ok" /\ AllDrained))

\* A finished run in which the second list call of a stream failed after
\* the first page had spawned a task, and the other stream ended with Ok.
C14_Witness ==
    /\ Done
    /\ result = "Ok"
    /\ \E s \in Streams :
          /\ StoppedBy(s, "Err")
          /\ Len(pages[s]) >= 2
          /\ Len(handles[s]) >= 1
          /\ pres[OtherStream(s)] = "Ok"
          /\ Len(pages[OtherStream(s)]) >= 1

(***************************************************************************)
(* C15  Item anomaly.  An element of a fetched page that is not of the     *)
(* stream's kind gets no deletion task, and every other element of the     *)
(* same page, before or after it, is still filtered: it has a task exactly *)
(* when it is of the stream's kind and not whitelisted.                    *)
(***************************************************************************)
C15_ItemAnomalySkipsOne ==
    \A s \in Streams : \A n \in 1..Len(pages[s]) :
        \A j \in 1..Len(Children(s, n)) :
            Children(s, n)[j].kind # ExpectedKind(s) =>
                /\ \A t \in Streams : Children(s, n)[j].name \notin DispatchedIds(t)
                /\ \A k \in 1..Len(Children(s, n)) :
                      (k # j /\ Children(s, n)[k].kind = ExpectedKind(s)) =>
                          (Children(s, n)[k].name \in DispatchedIds(s)
                              <=> Children(s, n)[k].subreddit \notin whitelist)

\* A page began with an element of the wrong kind, and the item behind it
\* in the same page got its deletion task.
C15_Witness ==
    \E s \in Streams : \E n \in 1..Len(pages[s]) :
        \E j, k \in 1..Len(Children(s, n)) :
            /\ j < k
            /\ Children(s, n)[j].kind # ExpectedKind(s)
            /\ Children(s, n)[k].kind = ExpectedKind(s)
            /\ Children(s, n)[k].name \in DispatchedIds(s)

(***************************************************************************)
(* C16  Each stream deletes only items of its own kind.  Every task of the *)
(* posts pipeline carries the id of a Link returned in the posts listing,  *)
(* every task of the comments pipeline the id of a Comment returned in the *)
(* comments listing; an element of the other kind in a stream's page has   *)
(* no task in that stream.                                                 *)
(***************************************************************************)
C16_OwnKindOnly ==
    \A s \in Streams :
        /\ \A h \in 1..Len(handles[s]) :
              \E n \in 1..Len(pages[s]) : \E j \in 1..Len(Children(s, n)) :
                  /\ Children(s, n)[j].name = handles[s][h].id
                  /\ Children(s, n)[j].kind = ExpectedKind(s)
        /\ \A n \in 1..Len(pages[s]) : \A j \in 1..Len(Children(s, n)) :
              Children(s, n)[j].kind # ExpectedKind(s) =>
                  Children(s, n)[j].name \notin DispatchedIds(s)

\* The comments pipeline received a Link and a Comment, and spawned a task
\* for the Comment only.
C16_Witness ==
    \E n \in 1..Len(pages["comments"]) :
        \E j, k \in 1..Len(Children("comments", n)) :
            /\ Children("comments", n)[j].kind = "t3"
            /\ Children("comments", n)[j].subreddit \notin whitelist
            /\ Children("comments", n)[k].kind = "t1"
            /\ DispatchedIds("comments") = {Children("comments", n)[k].name}

(***************************************************************************)
(* Vocabulary of the task and scheduling properties.                       *)
(***************************************************************************)

\* The delete_link calls made by the tasks of a handles Vec.
RECURSIVE SumCalls(_)
SumCalls(hs) == IF hs = <<>> THEN 0 ELSE Head(hs).ncalls + SumCalls(Tail(hs))

\* The names of the elements of a sequence that are items of the stream's
\* kind in a subreddit that is not whitelisted.
RECURSIVE DeletableNames(_, _)
DeletableNames(s, items) ==
    IF items = <<>> THEN <<>>
    ELSE IF Head(items).kind = ExpectedKind(s)
              /\ Head(items).subreddit \notin whitelist
            THEN <<Head(items).name>> \o DeletableNames(s, Tail(items))
            ELSE DeletableNames(s, Tail(items))

\* The names of the elements a stream has received.
NamesSeen(s) ==
    UNION {{Children(s, n)[j].name : j \in 1..Len(Children(s, n))} :
              n \in 1..Len(pages[s])}

(***************************************************************************)
(* C17  No retry.  A task that has not resolved has made no delete call    *)
(* that returned, a resolved task has made exactly one, whether it ended   *)
(* ok or failed, and a resolved task never changes again; so the delete    *)
(* calls of a finished run are as many as its tasks.                       *)
(***************************************************************************)
C17_ResolvedStays ==
    \A s \in Streams : \A h \in 1..Len(handles[s]) :
        handles[s][h].st # "pending" =>
            /\ Len(handles'[s]) >= h
            /\ handles'[s][h] = handles[s][h]

C17_NoRetry ==
    /\ [][C17_ResolvedStays]_vars
    /\ [](\A s \in Streams :
            /\ \A h \in 1..Len(handles[s]) :
                  handles[s][h].ncalls =
                      IF handles[s][h].st = "pending" THEN 0 ELSE 1
            /\ Done => SumCalls(handles[s]) = Len(handles[s]))

\* A finished run in which a delete failed and its task made one call.
C17_Witness ==
    /\ Done
    /\ \E s \in Streams : \E h \in 1..Len(handles[s]) :
          /\ handles[s][h].st = "failed"
          /\ handles[s][h].ncalls = 1
          /\ SumCalls(handles[s]) = Len(handles[s])
          /\ Len(handles[s]) >= 2

(***************************************************************************)
(* C18  Pagination does not wait for deletions.  A pipeline at the top of  *)
(* its loop can issue its list call, and a pipeline awaiting a response    *)
(* can take it and spawn, whatever the state of the tasks spawned before.  *)
(***************************************************************************)
C18_PaginationDoesNotWait ==
    \A s \in Streams :
        /\ (pc = "running" /\ ppc[s] = "loop") => ENABLED ListPage(s)
        /\ ppc[s] = "await" => ENABLED ResponseListing(s)

\* The list call for the second page is in flight while a task spawned for
\* the first page of the same stream is unresolved.
C18_Witness ==
    \E s \in Streams :
        /\ ppc[s] = "await"
        /\ Len(calls[s]) = 2
        /\ Len(pages[s]) = 1
        /\ \E h \in 1..Len(handles[s]) :
              /\ handles[s][h].st = "pending"
              /\ \E j \in 1..Len(Children(s, 1)) :
                    Children(s, 1)[j].name = handles[s][h].id

(***************************************************************************)
(* C19  Pagination within a stream is sequential.  At most one list call   *)
(* of a stream is in flight, exactly while its pipeline awaits; when call  *)
(* n+1 exists, the response to call n has been received, all its elements  *)
(* have been through the loop (the tasks spawned are those of all received *)
(* pages), and the cursor of call n+1 is the name of its last element.     *)
(***************************************************************************)
C19_SequentialPagination ==
    \A s \in Streams :
        /\ Len(calls[s]) = Len(pages[s]) + (IF ppc[s] = "await" THEN 1 ELSE 0)
        /\ DispatchedSeq(s) = DeletableNames(s, Concat(pages[s]))
        /\ \A n \in 2..Len(calls[s]) :
              /\ pages[s][n - 1].type = "Listing"
              /\ Len(Children(s, n - 1)) = LISTING_LIMIT
              /\ calls[s][n] = Last(Children(s, n - 1)).name

\* A second list call is in flight after a first page that spawned a task.
C19_Witness ==
    \E s \in Streams :
        /\ ppc[s] = "await"
        /\ Len(calls[s]) = 2
        /\ Len(pages[s]) = 1
        /\ Len(handles[s]) >= 1

(***************************************************************************)
(* C20  The pipelines are independent.  While both run, a step changes     *)
(* the position, result, cursor, calls, responses or tasks of at most one  *)
(* stream; a stream's cursor and list-call cursors are absent or names     *)
(* from its own responses, and its tasks carry ids from its own responses. *)
(***************************************************************************)
C20_OneStreamPerStep ==
    (pc = "running" /\ pc' = "running") =>
        \/ StreamState("posts")' = StreamState("posts")
        \/ StreamState("comments")' = StreamState("comments")

C20_IndependentPipelines ==
    /\ [][C20_OneStreamPerStep]_vars
    /\ [](\A s \in Streams :
            /\ after[s] \in {None} \cup NamesSeen(s)
            /\ \A n \in 1..Len(calls[s]) : calls[s][n] \in {None} \cup NamesSeen(s)
            /\ DispatchedIds(s) \subseteq NamesSeen(s))

\* The posts pipeline has advanced its cursor and spawned a task while the
\* comments pipeline has not made its first call, and the comments listing
\* is not empty.
C20_Witness ==
    /\ pc = "running"
    /\ after["posts"] # None
    /\ Len(handles["posts"]) >= 1
    /\ calls["comments"] = <<>>
    /\ listing["comments"] # <<>>

(***************************************************************************)
(* C21.                                                                    *)
(***************************************************************************)

\* The position of the run in Idle -> Authenticating -> Running ->
\* Draining -> Done.
Phase ==
    CASE pc = "idle" -> 0
      [] pc = "auth" -> 1
      [] pc = "running" -> 2
      [] pc = "draining" -> 3
      [] pc = "done" -> 4

\* The delete calls made so far.
DeleteCalls == SumCalls(handles["comments"]) + SumCalls(handles["posts"])

\* One step of a run keeps the order of the phases.
C21_StepKeepsOrder ==
    /\ Phase' >= Phase
    /\ \A s \in Streams :
          ppc[s] = "ended" =>
              /\ Len(handles'[s]) = Len(handles[s])
              /\ calls'[s] = calls[s]
              /\ ppc'[s] = "ended"
    /\ pc \in {"draining", "done"} =>
          /\ calls' = calls
          /\ \A s \in Streams : Len(handles'[s]) = Len(handles[s])
    /\ (pc # "draining" /\ pc' = "draining") => JoinReady(ppc)

\* C21: no list call and no delete call is made before basic_auth has
\* returned Ok; once a pipeline has ended, it makes no further list call and
\* spawns no further task; regreddit awaits handles (Draining) only when
\* both pipelines have ended; and from Draining on no list call is made and
\* no task is spawned.
C21_PhaseOrdering ==
    /\ [][C21_StepKeepsOrder]_vars
    /\ [](/\ auth # "Ok" =>
               /\ \A s \in Streams : calls[s] = <<>> /\ handles[s] = <<>>
               /\ DeleteCalls = 0
          /\ pc = "draining" \/ Done =>
               \A s \in Streams :
                   ppc[s] = "ended" /\ Len(pages[s]) = Len(calls[s])
          /\ \A s \in Streams : joined[s] > 0 => pc \in {"draining", "done"})

\* regreddit is awaiting handles: both pipelines have ended, one of them
\* after two list calls, and a spawned task is still pending.
C21_Witness ==
    /\ pc = "draining"
    /\ \E s \in Streams :
          /\ Len(calls[s]) >= 2
          /\ \E h \in 1..Len(handles[s]) : handles[s][h].st = "pending"

(***************************************************************************)
(* C22.                                                                    *)
(***************************************************************************)

\* The places <<n, j>> of the pages of a stream where the non-exempt child
\* of the stream's kind named x stands.
Occurrences(s, x) ==
    UNION {{<<n, j>> : j \in {i \in 1..Len(Children(s, n)) :
                                /\ Children(s, n)[i].name = x
                                /\ Children(s, n)[i].kind = OwnKind(s)
                                /\ Children(s, n)[i].subreddit \notin whitelist}} :
           n \in 1..Len(pages[s])}

\* The tasks of a stream spawned for the id x.
TasksFor(s, x) == SelectSeq(handles[s], LAMBDA h : h.id = x)

\* C22: the pipeline spawns one task for every occurrence of a non-exempt
\* child of its kind in the pages it has fetched, also when the same id
\* has occurred before; when the run is done, as many delete calls have been
\* made for an id as it has occurrences.
C22_NoDeduplication ==
    \A s \in Streams : \A x \in NamesSeen(s) :
        /\ Len(TasksFor(s, x)) = Cardinality(Occurrences(s, x))
        /\ Done => SumCalls(TasksFor(s, x)) = Cardinality(Occurrences(s, x))

\* The run is done, a non-exempt id was served in two pages of a stream and
\* two delete calls were made for it.
C22_Witness ==
    /\ Done
    /\ \E s \in Streams : \E x \in NamesSeen(s) :
          /\ \E a, b \in Occurrences(s, x) : a[1] # b[1]
          /\ SumCalls(TasksFor(s, x)) = 2

(***************************************************************************)
(* C23.                                                                    *)
(***************************************************************************)

\* C23: under fair scheduling, with every Client call returning and finite
\* listings, regreddit returns; when basic_auth has returned Ok, it returns
\* Ok with both pipelines ended and every spawned task resolved and awaited.
C23_Termination ==
    <>(/\ pc = "done"
       /\ auth = "Ok" =>
             /\ result = "Ok"
             /\ \A s \in Streams :
                   /\ ppc[s] = "ended"
                   /\ joined[s] = Len(handles[s])
                   /\ \A h \in 1..Len(handles[s]) :
                         handles[s][h].st # "pending")

\* The run is done after authentication, two list calls of a stream and a
\* failed and a successful deletion.
C23_Witness ==
    /\ Done
    /\ \E s \in Streams : Len(calls[s]) >= 2
    /\ \E s \in Streams : \E h \in 1..Len(handles[s]) :
          handles[s][h].st = "failed"
    /\ \E s \in Streams : \E h \in 1..Len(handles[s]) :
          handles[s][h].st = "ok"

(***************************************************************************)
(* C24.                                                                    *)
(***************************************************************************)

\* The children of a stream's kind in a whitelisted subreddit among the
\* pages the stream has fetched, in order.
ExemptSeen(s) ==
    SelectSeq(Concat(pages[s]),
              LAMBDA it : it.kind = OwnKind(s) /\ it.subreddit \in whitelist)

\* The tasks of a stream spawned for the id x that have ended in state st.
Ended(s, x, st) ==
    {h \in 1..Len(handles[s]) : handles[s][h].id = x /\ handles[s][h].st = st}

\* C24: a pending task has handed no outcome record to the logger; a task
\* that has ended has handed exactly one, the info record naming its id when
\* delete_link returned Ok and the warn record naming its id when it
\* returned Err (the log holds as many of each as tasks have ended so).
\* Every whitelisted child has produced one whitelisted record and no
\* outcome record, and the log holds no outcome record for an id that has
\* no task.
C24_OneOutcomeRecord ==
    /\ \A s \in Streams : \A x \in DispatchedIds(s) :
          /\ CopiesIn(DeletedRecord(s, x), log)
                = Cardinality(Ended(s, x, "ok"))
          /\ CopiesIn(FailedRecord(x), log)
                = Cardinality(Ended(s, x, "failed"))
    /\ \A s \in Streams :
          /\ CopiesIn(WhitelistedRecord(s), log) = Len(ExemptSeen(s))
          /\ \A j \in 1..Len(ExemptSeen(s)) :
                /\ ~BagIn(DeletedRecord(s, ExemptSeen(s)[j].name), log)
                /\ ~BagIn(FailedRecord(ExemptSeen(s)[j].name), log)
    /\ \A rec \in BagToSet(log) :
          rec.event # "whitelisted" =>
              \E s \in Streams : rec.id \in DispatchedIds(s)

\* Both handle loops are over: one task has succeeded and one has failed,
\* each with its record in the log, and a whitelisted child was skipped.
C24_Witness ==
    /\ Done
    /\ \E s \in Streams : \E h \in 1..Len(handles[s]) :
          /\ handles[s][h].st = "ok"
          /\ BagIn(DeletedRecord(s, handles[s][h].id), log)
    /\ \E s \in Streams : \E h \in 1..Len(handles[s]) :
          /\ handles[s][h].st = "failed"
          /\ BagIn(FailedRecord(handles[s][h].id), log)
    /\ \E s \in Streams : BagIn(WhitelistedRecord(s), log)

(***************************************************************************)
(* C25.                                                                    *)
(***************************************************************************)

\* Whether the pipeline goes on after the response r, read off the
\* response alone: a Listing of LISTING_LIMIT children whose last child is
\* a Link.  The whitelist is no part of it.
GoesOn(r) ==
    /\ r.type = "Listing"
    /\ Len(r.children) = LISTING_LIMIT
    /\ Last(r.children).kind = "t3"

\* The list calls a pipeline has made and its position, as a function of
\* the responses rs it has received: the first call carries no cursor, each
\* further call the name of the last child of the response before it.
RECURSIVE ExpectedCalls(_)
ExpectedCalls(rs) ==
    IF rs = <<>> THEN <<None>>
    ELSE LET before == SubSeq(rs, 1, Len(rs) - 1)
         IN  IF GoesOn(Last(rs))
                THEN Append(ExpectedCalls(before),
                            Last(Last(rs).children).name)
                ELSE ExpectedCalls(before)

\* C25: the list calls of a stream and their cursors are a function of the
\* server's responses in which the whitelist does not occur, so two runs
\* that receive the same responses under different whitelists make the same
\* list calls: the calls made are a prefix of ExpectedCalls of the responses
\* received, all of it but the call still to be made; the cursor and the
\* end of the stream follow from the last response alone, whitelisted
\* children counting toward the page length and supplying the cursor as any
\* other child.
C25_PaginationIgnoresWhitelist ==
    \A s \in Streams :
        ppc[s] # "idle" =>
            LET exp == ExpectedCalls(pages[s])
            IN  /\ ppc[s] = "await" => calls[s] = exp
                /\ ppc[s] = "loop" =>
                      /\ calls[s] = SubSeq(exp, 1, Len(exp) - 1)
                      /\ after[s] = Last(exp)
                      /\ pages[s] # <<>> => GoesOn(Last(pages[s]))
                /\ ppc[s] = "ended" =>
                      /\ calls[s] = exp
                      /\ ~GoesOn(Last(pages[s]))

\* A stream has fetched a full page of whitelisted children only, has
\* spawned no task, and has made its next list call with the name of the
\* whitelisted last child as the cursor.
C25_Witness ==
    \E s \in Streams :
        /\ Len(calls[s]) >= 2
        /\ Len(Children(s, 1)) = LISTING_LIMIT
        /\ \A j \in 1..LISTING_LIMIT : Children(s, 1)[j].subreddit \in whitelist
        /\ calls[s][2] = Last(Children(s, 1)).name
        /\ handles[s] = <<>>

(***************************************************************************)
(* C26.                                                                    *)
(***************************************************************************)

\* The children of page n of a stream for which the pipeline spawns a task.
DeletableIn(s, n) == DeletableNames(s, Children(s, n))

\* Page n of a stream is a Listing of exactly LISTING_LIMIT children.
FullPage(s, n) ==
    /\ pages[s][n].type = "Listing"
    /\ Len(Children(s, n)) = LISTING_LIMIT

\* The stream went on after page n: it has made, or is about to make, the
\* list call n + 1 with the name of the last child of page n.
WentOn(s, n) ==
    \/ Len(calls[s]) > n /\ calls[s][n + 1] = Last(Children(s, n)).name
    \/ /\ Len(calls[s]) = n
       /\ ppc[s] = "loop"
       /\ after[s] = Last(Children(s, n)).name

\* The stream ended on page n.
EndedOn(s, n) ==
    /\ Len(calls[s]) = n
    /\ Len(pages[s]) = n
    /\ ppc[s] = "ended"

\* C26: the length test is on all the children of the page.  A page of
\* exactly LISTING_LIMIT children does not end the stream as a short page,
\* however few of them are deletable: the stream goes on when the last
\* child is a Link, and ends when the last child is anything else, whatever
\* the children before it are.
C26_FullPageCountsEveryElement ==
    \A s \in Streams : \A n \in 1..Len(pages[s]) :
        FullPage(s, n) =>
            IF Last(Children(s, n)).kind = "t3"
                THEN WentOn(s, n)
                ELSE EndedOn(s, n)

\* A stream has gone on after a full page holding fewer than LISTING_LIMIT
\* deletable children, one of them whitelisted.
C26_Witness ==
    \E s \in Streams : \E n \in 1..Len(pages[s]) :
        /\ FullPage(s, n)
        /\ Len(DeletableIn(s, n)) < LISTING_LIMIT
        /\ \E j \in 1..LISTING_LIMIT :
              /\ Children(s, n)[j].kind = OwnKind(s)
              /\ Children(s, n)[j].subreddit \in whitelist
        /\ Len(calls[s]) > n

(***************************************************************************)
(* C27.                                                                    *)
(***************************************************************************)

\* The input sources given.
Supplied ==
    {f \in {"text", "text_file", "richtext_json", "richtext_json_file"} :
        params[f] # None}

\* The one input source given, when there is exactly one.
Source == CHOOSE f \in Supplied : TRUE

\* The one source given is the path of a file that cannot be read.
Unreadable ==
    /\ Source \in {"text_file", "richtext_json_file"}
    /\ params[Source] \notin files

\* The body the one source given stands for: the text itself, or the
\* contents of the file, as text or as richtext JSON.
BodyOfSource ==
    [kind |-> IF Source \in {"text", "text_file"} THEN "Text"
                                                   ELSE "RichtextJson",
     data |-> IF Source \in {"text", "richtext_json"}
                 THEN params[Source]
                 ELSE FileContents(params[Source])]

\* No submit call is made before basic_auth has returned Ok, and none when
\* it has failed, which is the error returned.
AuthGuardsSubmit ==
    /\ auth # "Ok" => submits = <<>>
    /\ (spc = "done" /\ auth = "Err") => sres = "Authentication"

\* With none or several sources given, InvalidInput and no submit call.
NotOneSource ==
    Cardinality(Supplied) # 1 =>
        /\ submits = <<>>
        /\ (spc = "done" /\ auth = "Ok") => sres = "InvalidInput"

\* C27 as stated: once basic_auth has returned Ok with exactly one source
\* given, exactly one submit call has been made, carrying that body.
C27_ExactlyOneSource ==
    /\ AuthGuardsSubmit
    /\ NotOneSource
    /\ (auth = "Ok" /\ Cardinality(Supplied) = 1) =>
          submits = <<BodyOfSource>>

\* C27 amended: once basic_auth has returned Ok with exactly one source
\* given, exactly one submit call has been made, carrying that body, unless
\* the source is a file that cannot be read: then no submit call is made
\* and the Io error is returned.  With none or several sources given it
\* returns InvalidInput without a submit call; when basic_auth fails it
\* returns that error without a submit call.
C27_ExactlyOneReadableSource ==
    /\ AuthGuardsSubmit
    /\ NotOneSource
    /\ (auth = "Ok" /\ Cardinality(Supplied) = 1) =>
          IF Unreadable
              THEN submits = <<>> /\ sres = "Io" /\ spc = "done"
              ELSE /\ submits = <<BodyOfSource>>
                   /\ spc = "done" => sres \in {"Ok", "Network", "Reddit"}

\* submit_self_post has returned Ok after one submit call carrying the
\* contents of the text file, the one source given.
C27_Witness ==
    /\ spc = "done"
    /\ sres = "Ok"
    /\ Supplied = {"text_file"}
    /\ submits = <<[kind |-> "Text", data |-> FileContents(params.text_file)]>>

====
